---- MODULE Spec2Model ----
\* Verification model of src/Ex4/ex4_play.py: the multi-source canton merge
\* (Task 1) and the map driver (Task 2: metric selector, date slider, play
\* button and the periodic animation callback).
\*
\* Representation
\*   strings that the code slices or compares structurally are sequences:
\*     a canton code is <<"A","G">>, HASC_1 is <<"C","H",".","A","G">>,
\*     a calendar string '2020-10-29' is <<2020, 10, 29>>;
\*   a naive datetime / pandas Timestamp is an integer number of milliseconds
\*     counted from 2020-10-28 00:00 (day number 0), a POSIX timestamp in
\*     milliseconds is counted from 2020-10-28 00:00 UTC;
\*   the slider value is [type, v]: the pandas Timestamp the script constructs
\*     it with, or the float stamp a client move or the animation writes;
\*   a float cell is <<n>> for the value n / 100000 and <<>> for NaN, a size
\*     is <<n>> for n / 100000 as well, so 20.0 is <<2000000>>.
EXTENDS Integers, Sequences, FiniteSets, TLC

\* ------------------------------------------------------------------ bounds
\* known dates are drawn from day numbers 1 .. MaxDay (2020-10-29 onwards)
MaxDay == 3
\* at most this many cells of the case table are NaN
MaxMissing == 1

\* --------------------------------------------------------------- constants
MsPerHour == 60 * 60 * 1000
MsPerDay == 24 * MsPerHour
\* size = value * SCALE_NUM / SCALE_DEN + OFFSET
SCALE_NUM == 100000
SCALE_DEN == 5
OFFSET == 10
\* denominator of the fixed-point representation of cells and sizes
Den == SCALE_NUM

VARIABLES
    shape_raw,     \* rows of the shape file: [HASC_1, geometry]
    demo_raw,      \* rows of demographics.csv: [Canton, Density, BedsPerCapita]
    local_raw,     \* rows of the standard-format file: [abbreviation_canton, lat, long]
    case_raw,      \* the case table: [Date, columns, data]
    tz,            \* UTC offset of the local zone, in hours
    pc,            \* "load" | "task2" | "serve" | "crashed"
    err,           \* exception raised by the last step ("" if none)
    dates,         \* pd.to_datetime(dates_raw), in file order
    merged,        \* the merged frame, a sequence of rows
    geosource,     \* geosource.geojson, the published document
    timeslider,    \* [start, end, value], value being [type, v]
    buttons,       \* RadioButtonGroup.active
    color_bar,     \* [color_mapper, title]
    fill_color,    \* cantons.glyph.fill_color
    button_label,  \* button.label
    callback_id,   \* the global callback_id (0 while unassigned)
    periodic,      \* handles of the periodic callbacks registered with curdoc()
    lastOp,        \* history: name of the last event handled
    again          \* history: the last event repeated the event before it

inputs == <<shape_raw, demo_raw, local_raw, case_raw, tz>>
frame == <<dates, merged, geosource>>
widgets == <<timeslider, buttons, color_bar, fill_color, button_label,
             callback_id, periodic>>
vars == <<inputs, pc, err, frame, widgets, lastOp, again>>

\* ------------------------------------------------------------ small helpers
NaN == <<>>
IsNaN(x) == x = <<>>
Num(n) == <<n>>

RECURSIVE SeqMin(_), SeqMax(_)
SeqMin(s) == IF Len(s) = 1 THEN s[1]
             ELSE LET m == SeqMin(Tail(s)) IN IF s[1] <= m THEN s[1] ELSE m
SeqMax(s) == IF Len(s) = 1 THEN s[1]
             ELSE LET m == SeqMax(Tail(s)) IN IF s[1] >= m THEN s[1] ELSE m

Range(s) == {s[i] : i \in 1..Len(s)}

\* ------------------------------------------------------ calendar conversions
\* '%Y-%m-%d' of day number n (day 0 is 2020-10-28; October has 31 days)
YMD(n) == IF n + 28 <= 31 THEN <<2020, 10, n + 28>> ELSE <<2020, 11, n - 3>>
\* day number of a calendar string
DayOf(s) == IF s[2] = 10 THEN s[3] - 28 ELSE s[3] + 3

\* pd.to_datetime of one calendar string: midnight of that day
to_datetime(s) == DayOf(s) * MsPerDay
\* datetime.fromtimestamp(ms / 1e3): the naive local time of a POSIX stamp
fromtimestamp(ms, zone) == ms + zone * MsPerHour
\* datetime.timestamp(dt) * 1e3: the POSIX stamp of a naive local time
timestamp(dt, zone) == dt - zone * MsPerHour
\* dt.strftime('%Y-%m-%d')
strftime(dt) == YMD(dt \div MsPerDay)
\* dt.replace(hour=0, minute=0, second=0, microsecond=0)
replace_midnight(dt) == (dt \div MsPerDay) * MsPerDay
\* the stamp the slider shows a client for a naive Timestamp (read as UTC)
slider_stamp(dt) == dt
\* the two kinds of object timeslider.value refers to
PyTimestamp(dt) == [type |-> "Timestamp", v |-> dt]
PyFloat(ms) == [type |-> "float", v |-> ms]

\* ------------------------------------------------------------- input family
AG == <<"A", "G">>
ZH == <<"Z", "H">>
CH == <<"C", "H">>
CantonList == <<AG, ZH>>
Cantons == Range(CantonList)

HASC(c) == <<"C", "H", ".">> \o c
Polygon(c) == <<"polygon">> \o c
DensityOf(c) == IF c = AG THEN 100 ELSE 200
BedsOf(c) == IF c = AG THEN 4 ELSE 3
LatOf(c) == IF c = AG THEN 47 ELSE 48
LongOf(c) == IF c = AG THEN 8 ELSE 9

\* sequences without repetition over a set
RECURSIVE Perms(_)
Perms(S) == IF S = {} THEN {<<>>}
            ELSE UNION {{<<x>> \o p : p \in Perms(S \ {x})} : x \in S}
Arrangements(S) == UNION {Perms(T) : T \in SUBSET S}

\* the subsequence of CantonList whose members are in S
InOrder(S) == SelectSeq(CantonList, LAMBDA c : c \in S)

ShapeRows(cs) == [i \in 1..Len(cs) |-> [HASC_1 |-> HASC(cs[i]), geometry |-> Polygon(cs[i])]]
DemoRows(cs) == [i \in 1..Len(cs) |->
                   [Canton |-> cs[i], Density |-> DensityOf(cs[i]), BedsPerCapita |-> BedsOf(cs[i])]]
\* the standard-format file has one row per canton and date: two rows each here
LocalRows(cs) == [i \in 1..2 * Len(cs) |->
                    LET c == cs[(i + 1) \div 2] IN
                    [abbreviation_canton |-> c, lat |-> LatOf(c), long |-> LongOf(c)]]

\* strictly increasing sequence of the members of a set of day numbers
RECURSIVE Ascending(_)
Ascending(S) == IF S = {} THEN <<>>
                ELSE LET m == CHOOSE x \in S : \A y \in S : x <= y
                     IN <<m>> \o Ascending(S \ {m})

ColName(c, k) == [canton |-> c, kind |-> k]
\* the columns of the case table: per canton the count and the per-capita
\* difference, then the nationwide per-capita difference
CaseColumns(cs) == [i \in 1..2 * Len(cs) + 1 |->
                      IF i = 2 * Len(cs) + 1 THEN ColName(CH, "diff_pc")
                      ELSE ColName(cs[(i + 1) \div 2], IF i % 2 = 1 THEN "diff" ELSE "diff_pc")]
BaseValue(c, day) == Num(20 * (day - 1) + (IF c = AG THEN 10 ELSE IF c = ZH THEN 20 ELSE 15))
CaseTable(days, cs, missing) ==
    LET cols == CaseColumns(cs) IN
    [Date |-> [i \in 1..Len(days) |-> YMD(days[i])],
     columns |-> cols,
     data |-> [i \in 1..Len(days) |-> [j \in 1..Len(cols) |->
                 IF cols[j].kind = "diff_pc" /\ <<days[i], cols[j].canton>> \in missing
                 THEN NaN ELSE BaseValue(cols[j].canton, days[i])]]]

DaySets == SUBSET (1..MaxDay) \ {{}}
MissingSets(days, cs) == {m \in SUBSET (days \X Range(cs)) : Cardinality(m) <= MaxMissing}
\* the zones the application is served in: UTC and Swiss winter time (UTC+1)
TZHours == {0, 1}

\* ------------------------------------------------------ Task 1: preprocessing
\* lines 66-67: unique (abbreviation_canton, lat, long) combinations with
\* their row count, sorted by key
KeyOf(r) == <<r.abbreviation_canton, r.lat, r.long>>
SortedKeys == [i \in 1..Len(CantonList) |->
                 <<CantonList[i], LatOf(CantonList[i]), LongOf(CantonList[i])>>]
canton_point(local) ==
    LET present == SelectSeq(SortedKeys, LAMBDA k : \E i \in 1..Len(local) : KeyOf(local[i]) = k)
    IN [i \in 1..Len(present) |->
          [abbreviation_canton |-> present[i][1], lat |-> present[i][2], long |-> present[i][3],
           count |-> Cardinality({j \in 1..Len(local) : KeyOf(local[j]) = present[i]})]]

\* lines 81-82: Canton = HASC_1.str.slice(3); keep geometry and Canton
str_slice3(s) == SubSeq(s, 4, Len(s))
canton_poly(shape) ==
    [i \in 1..Len(shape) |-> [geometry |-> shape[i].geometry, Canton |-> str_slice3(shape[i].HASC_1)]]

\* DataFrame.merge(how='inner'): the rows of left in order, each combined with
\* every row of right that has the same key, in right's order
RECURSIVE Matches(_, _, _, _)
Matches(l, right, lkey, rkey) ==
    IF right = <<>> THEN <<>>
    ELSE (IF l[lkey] = right[1][rkey] THEN <<l @@ right[1]>> ELSE <<>>)
         \o Matches(l, Tail(right), lkey, rkey)
\* mutant: how='left', a left row without a match is kept
RECURSIVE merge_left(_, _, _, _)
merge_left(left, right, lkey, rkey) ==
    IF left = <<>> THEN <<>>
    ELSE (IF Matches(left[1], right, lkey, rkey) = <<>> THEN <<left[1]>>
          ELSE Matches(left[1], right, lkey, rkey))
         \o merge_left(Tail(left), right, lkey, rkey)
RECURSIVE merge(_, _, _, _)
merge(left, right, lkey, rkey) ==
    IF left = <<>> THEN <<>>
    ELSE Matches(left[1], right, lkey, rkey) \o merge(Tail(left), right, lkey, rkey)

\* lines 91-92
merge_static(shape, demo, local) ==
    merge(merge(canton_poly(shape), demo, "Canton", "Canton"),
          canton_point(local), "Canton", "abbreviation_canton")

\* lines 96-97: the columns whose name contains 'diff_pc', without CH_diff_pc
list_diff_pc(case) ==
    SelectSeq([j \in 1..Len(case.columns) |-> j],
              LAMBDA j : case.columns[j].kind = "diff_pc" /\ case.columns[j].canton # CH)

\* line 100: list(list_diff_pc.iloc[i])
dailyNewCases(case, i) ==
    LET sel == list_diff_pc(case) IN [k \in 1..Len(sel) |-> case.data[i][sel[k]]]

\* a row of the merged frame with every static column missing (NaN / None)
missing_static ==
    [geometry |-> NaN, Canton |-> NaN, Density |-> NaN, BedsPerCapita |-> NaN,
     abbreviation_canton |-> NaN, lat |-> NaN, long |-> NaN, count |-> NaN]

\* line 101 on a frame without rows: pandas gives the frame the index of a
\* non-empty list before it checks the length, so the frame gets one row per
\* list element, the static columns of these rows being missing
ensure_valid_index(m, case) ==
    IF Len(m) = 0 /\ Len(case.Date) > 0 /\ Len(list_diff_pc(case)) > 0
    THEN [r \in 1..Len(list_diff_pc(case)) |-> missing_static]
    ELSE m

\* line 101 raises ValueError when the frame has rows and the list is not as
\* long as the frame
expand_fails(m, case) ==
    Len(case.Date) > 0 /\ Len(m) > 0 /\ Len(list_diff_pc(case)) # Len(m)

\* lines 99-101: one column per date; the list is assigned by position
expand(m, case) ==
    LET f == ensure_valid_index(m, case) IN
    [r \in 1..Len(f) |->
       f[r] @@ [date |-> [d \in Range(case.Date) |->
                            LET i == CHOOSE i \in 1..Len(case.Date) : case.Date[i] = d
                            IN dailyNewCases(case, i)[r]]]]

\* mutant: value * 1e5 / (5 + 10)
affine_precedence(x) ==
    IF IsNaN(x) THEN NaN ELSE Num((x[1] * SCALE_NUM) \div (SCALE_DEN + OFFSET))
\* mutant: a missing value is filled with 0 before scaling
affine_fillna(x) ==
    IF IsNaN(x) THEN Num(OFFSET * Den) ELSE Num(((x[1] * SCALE_NUM) \div SCALE_DEN) + OFFSET * Den)
\* value * 1e5 / 5 + 10 on a float cell (NaN stays NaN)
affine(x) == IF IsNaN(x) THEN NaN ELSE Num(((x[1] * SCALE_NUM) \div SCALE_DEN) + OFFSET * Den)

\* mutant: dnc is read from the last column once 'size' has been appended
initial_view_dnc_last(m, case) ==
    LET last == case.Date[Len(case.Date)] IN
    [r \in 1..Len(m) |->
       m[r] @@ [size |-> affine(m[r].date[last]), dnc |-> affine(m[r].date[last])]]
\* lines 105-106: size from the last column (the last date), dnc from the
\* column before the new last one (the last date again)
initial_view(m, case) ==
    LET last == case.Date[Len(case.Date)] IN
    [r \in 1..Len(m) |-> m[r] @@ [size |-> affine(m[r].date[last]), dnc |-> m[r].date[last]]]

\* DataFrame.to_json of a GeoDataFrame: one feature per row
to_json(m) == [type |-> "FeatureCollection",
               features |-> [r \in 1..Len(m) |->
                  [id |-> r - 1, geometry |-> m[r].geometry,
                   properties |-> [k \in DOMAIN m[r] \ {"geometry"} |-> m[r][k]]]]]

NoDoc == [type |-> "none", features |-> <<>>]
NoSlider == [start |-> 0, end |-> 0, value |-> [type |-> "none", v |-> 0]]
NoBar == [color_mapper |-> [low |-> 0, high |-> 0], title |-> ""]
NoFill == [field |-> "", transform |-> [low |-> 0, high |-> 0]]

\* Task 1 of the script, lines 59-109
Task1 ==
    /\ pc = "load"
    /\ LET m0 == merge_static(shape_raw, demo_raw, local_raw) IN
       IF expand_fails(m0, case_raw)
       THEN /\ pc' = "crashed"
            /\ err' = "ValueError"
            /\ dates' = [i \in 1..Len(case_raw.Date) |-> to_datetime(case_raw.Date[i])]
            /\ merged' = m0
            /\ geosource' = geosource
       ELSE LET m == initial_view(expand(m0, case_raw), case_raw) IN
            /\ pc' = "task2"
            /\ err' = ""
            /\ dates' = [i \in 1..Len(case_raw.Date) |-> to_datetime(case_raw.Date[i])]
            /\ merged' = m
            /\ geosource' = to_json(m)
    /\ lastOp' = "Task1"
    /\ again' = FALSE
    /\ UNCHANGED <<inputs, widgets>>

\* ------------------------------------------------------------ initial states
Blank ==
    /\ pc = "load"
    /\ err = ""
    /\ dates = <<>>
    /\ merged = <<>>
    /\ geosource = NoDoc
    /\ timeslider = NoSlider
    /\ buttons = 0
    /\ color_bar = NoBar
    /\ fill_color = NoFill
    /\ button_label = ""
    /\ callback_id = 0
    /\ periodic = {}
    /\ lastOp = "start"
    /\ again = FALSE

\* any arrangement of the sources
InitMerge ==
    /\ \E g \in Arrangements(Cantons) : shape_raw = ShapeRows(g)
    /\ \E s \in SUBSET Cantons : demo_raw = DemoRows(InOrder(s))
    /\ \E s \in SUBSET Cantons : local_raw = LocalRows(InOrder(s))
    /\ \E days \in DaySets : \E cs \in Arrangements(Cantons) :
         \E miss \in MissingSets(days, cs) :
           case_raw = CaseTable(Ascending(days), cs, miss)
    /\ tz = 0
    /\ Blank

\* ---------------------------------------------------- Task 2: visualization
labels == <<"Density", "BedsPerCapita">>
PLAY == "> Play"
PAUSE == "|| Pause"

\* lines 119-123: one linear mapper per attribute, low and high taken from
\* the whole column of demo_raw
linear_cmap(field, low, high) ==
    [field |-> field, transform |-> [low |-> low, high |-> high]]
mappers(demo) ==
    [d \in Range(labels) |->
       LET col == [i \in 1..Len(demo) |-> demo[i][d]]
       IN linear_cmap(d, SeqMin(col), SeqMax(col))]

\* lines 159-164
update_bar(new, bar, fill) ==
    IF new \in 0..(Len(labels) - 1)
    THEN LET d == labels[new + 1] IN
         [color_bar |-> [color_mapper |-> mappers(demo_raw)[d].transform, title |-> d],
          fill_color |-> mappers(demo_raw)[d]]
    ELSE [color_bar |-> bar, fill_color |-> fill]

\* lines 184-185: the column name selected by a slider stamp
callback_key(new, zone) == strftime(fromtimestamp(new, zone))

\* line 186 raises KeyError when the frame has no column of that name
callback_raises(new, zone) == callback_key(new, zone) \notin Range(case_raw.Date)

\* mutant: size is computed from the dnc column before dnc is refreshed
callback_stale(m, new, zone) ==
    IF callback_raises(new, zone) THEN m
    ELSE LET i == callback_key(new, zone) IN
         [r \in 1..Len(m) |-> [m[r] EXCEPT !.size = affine(m[r].dnc), !.dnc = m[r].date[i]]]
\* lines 186-187: size and dnc of every row from the selected column (the
\* attribute assignments merged.size = ..., merged.dnc = ... reach the columns
\* 'size' and 'dnc', which exist since lines 105-106)
callback(m, new, zone) ==
    IF callback_raises(new, zone) THEN m
    ELSE LET i == callback_key(new, zone) IN
         [r \in 1..Len(m) |-> [m[r] EXCEPT !.size = affine(m[r].date[i]), !.dnc = m[r].date[i]]]

\* line 188: the document published after the handler ran for stamp new
publish(doc, m, new, zone) == IF callback_raises(new, zone) THEN doc ELSE to_json(m)

\* line 203 divides timeslider.value by 1e3: a TypeError while the value is
\* still the Timestamp of line 172
animate_raises(value) == value.type # "float"

\* mutant: out of range wraps to the first date of the series
animate_update_slider_first(value, zone) ==
    LET date == fromtimestamp(value.v, zone)
        day == replace_midnight(date - MsPerDay)
        kept == IF day \notin Range(dates) THEN dates[1] ELSE day
    IN PyFloat(timestamp(kept, zone))
\* lines 201-211: the value the animation step writes to the slider
animate_update_slider(value, zone) ==
    LET date == fromtimestamp(value.v, zone)
        day == replace_midnight(date - MsPerDay)
        kept == IF day \notin Range(dates) THEN dates[Len(dates)] ELSE day
    IN PyFloat(timestamp(kept, zone))

\* curdoc().add_periodic_callback: a handle distinct from the registered
\* ones and from the one callback_id still refers to
new_handle(registered, old) ==
    CHOOSE h \in 1..(Cardinality(registered) + 2) : h \notin registered /\ h # old

\* mutant: pausing restores the label but leaves the callback registered
animate_keeps_timer(label, id, registered) ==
    IF label = PLAY
    THEN LET h == new_handle(registered, id) IN
         [label |-> PAUSE, callback_id |-> h, periodic |-> registered \cup {h}, op |-> "Play"]
    ELSE [label |-> PLAY, callback_id |-> id, periodic |-> registered, op |-> "Pause"]
\* mutant: pausing removes the callback but forgets to restore the label
animate_keeps_label(label, id, registered) ==
    IF label = PLAY
    THEN LET h == new_handle(registered, id) IN
         [label |-> PAUSE, callback_id |-> h, periodic |-> registered \cup {h}, op |-> "Play"]
    ELSE [label |-> PAUSE, callback_id |-> id, periodic |-> registered \ {id}, op |-> "Pause"]
\* lines 215-222: what the button handler leaves behind
animate(label, id, registered) ==
    IF label = PLAY
    THEN LET h == new_handle(registered, id) IN
         [label |-> PAUSE, callback_id |-> h, periodic |-> registered \cup {h}, op |-> "Play"]
    ELSE [label |-> PLAY, callback_id |-> id, periodic |-> registered \ {id}, op |-> "Pause"]

\* Task 2 of the script, lines 115-228: the widgets in their initial state
Task2 ==
    /\ pc = "task2"
    /\ IF demo_raw = <<>>
       THEN /\ pc' = "crashed"
            /\ err' = "ValueError"
            /\ UNCHANGED widgets
       ELSE /\ pc' = "serve"
            /\ err' = ""
            /\ color_bar' = [color_mapper |-> mappers(demo_raw)["Density"].transform,
                             title |-> "Density"]
            /\ fill_color' = mappers(demo_raw)["Density"]
            /\ buttons' = 0
            /\ timeslider' = [start |-> SeqMin(dates),
                              end |-> SeqMax(dates),
                              value |-> PyTimestamp(SeqMax(dates))]
            /\ button_label' = PLAY
            /\ UNCHANGED <<callback_id, periodic>>
    /\ lastOp' = "Task2"
    /\ again' = FALSE
    /\ UNCHANGED <<inputs, frame>>

\* the stamps the slider offers: start, start + 1 day, ..., end
SliderStamps ==
    {slider_stamp(timeslider.start) + k * MsPerDay :
       k \in 0..((slider_stamp(timeslider.end) - slider_stamp(timeslider.start)) \div MsPerDay)}

\* the user moves the slider to stamp new; the on_change handler runs (it is
\* run for a repeated stamp too, which leaves the same state as skipping it)
SetDate(new) ==
    /\ pc = "serve"
    /\ timeslider' = [timeslider EXCEPT !.value = PyFloat(new)]
    /\ merged' = callback(merged, new, tz)
    /\ geosource' = publish(geosource, merged', new, tz)
    /\ err' = IF callback_raises(new, tz) THEN "KeyError" ELSE ""
    /\ lastOp' = "SetDate"
    /\ again' = (lastOp = "SetDate" /\ timeslider.value = PyFloat(new))
    /\ UNCHANGED <<inputs, pc, dates, buttons, color_bar, fill_color, button_label,
                   callback_id, periodic>>

\* mutant: the handler also rewinds the slider to its end
SetMetric_rewinds(new) ==
    /\ pc = "serve"
    /\ buttons' = new
    /\ color_bar' = update_bar(new, color_bar, fill_color).color_bar
    /\ fill_color' = update_bar(new, color_bar, fill_color).fill_color
    /\ timeslider' = [timeslider EXCEPT !.value = PyTimestamp(timeslider.end)]
    /\ err' = ""
    /\ lastOp' = "SetMetric"
    /\ again' = (lastOp = "SetMetric" /\ buttons = new)
    /\ UNCHANGED <<inputs, pc, frame, button_label, callback_id, periodic>>
\* the user clicks metric new of the radio group; update_bar runs
SetMetric(new) ==
    /\ pc = "serve"
    /\ buttons' = new
    /\ color_bar' = update_bar(new, color_bar, fill_color).color_bar
    /\ fill_color' = update_bar(new, color_bar, fill_color).fill_color
    /\ err' = ""
    /\ lastOp' = "SetMetric"
    /\ again' = (lastOp = "SetMetric" /\ buttons = new)
    /\ UNCHANGED <<inputs, pc, frame, timeslider, button_label, callback_id, periodic>>

\* the user clicks the play button; animate runs
PressPlay ==
    /\ pc = "serve"
    /\ LET a == animate(button_label, callback_id, periodic) IN
       /\ button_label' = a.label
       /\ callback_id' = a.callback_id
       /\ periodic' = a.periodic
       /\ lastOp' = a.op
    /\ again' = (lastOp \in {"Play", "Pause"})
    /\ err' = ""
    /\ UNCHANGED <<inputs, pc, frame, timeslider, buttons, color_bar, fill_color>>

\* a registered periodic callback fires: animate_update_slider writes the
\* slider, whose on_change handler runs before the step returns; an exception
\* is logged by the server and leaves the callback registered
Tick(h) ==
    /\ pc = "serve"
    /\ h \in periodic
    /\ IF animate_raises(timeslider.value)
       THEN /\ err' = "TypeError"
            /\ UNCHANGED <<timeslider, merged, geosource>>
       ELSE LET new == animate_update_slider(timeslider.value, tz) IN
            /\ timeslider' = [timeslider EXCEPT !.value = new]
            /\ merged' = callback(merged, new.v, tz)
            /\ geosource' = publish(geosource, merged', new.v, tz)
            /\ err' = IF callback_raises(new.v, tz) THEN "KeyError" ELSE ""
    /\ lastOp' = "Tick"
    /\ again' = (lastOp = "Tick")
    /\ UNCHANGED <<inputs, pc, dates, buttons, color_bar, fill_color, button_label,
                   callback_id, periodic>>

\* the sources of the running application: both cantons in every source, the
\* case columns in alphabetical order, any set of dates, any missing cells
Init ==
    /\ \E g \in Perms(Cantons) : shape_raw = ShapeRows(g)
    /\ demo_raw = DemoRows(CantonList)
    /\ local_raw = LocalRows(CantonList)
    /\ \E days \in DaySets : \E miss \in MissingSets(days, CantonList) :
         case_raw = CaseTable(Ascending(days), CantonList, miss)
    /\ tz \in TZHours
    /\ Blank

Next ==
    \/ Task1
    \/ Task2
    \/ \E new \in SliderStamps : SetDate(new)
    \/ \E new \in 0..(Len(labels) - 1) : SetMetric(new)
    \/ PressPlay
    \/ \E h \in periodic : Tick(h)
Spec == Init /\ [][Next]_vars

\* the slider stamps that stand for a date of the case series
KnownStamps == {new \in SliderStamps : ~callback_raises(new, tz)}
\* the application with the slider only ever moved onto dates of the series
NextKnown ==
    \/ Task1
    \/ Task2
    \/ \E new \in KnownStamps : SetDate(new)
    \/ \E new \in 0..(Len(labels) - 1) : SetMetric(new)
    \/ PressPlay
    \/ \E h \in periodic : Tick(h)
SpecKnown == Init /\ [][NextKnown]_vars

\* the application with its scheduling: the script runs to the end, and the
\* event loop keeps firing a periodic callback for as long as it is registered
SpecLive ==
    /\ Init
    /\ [][Next]_vars
    /\ WF_vars(Task1)
    /\ WF_vars(Task2)
    /\ WF_vars(\E h \in periodic : Tick(h))

NextMerge == Task1
SpecMerge == InitMerge /\ [][NextMerge]_vars

\* ================================================================== claims
\* what the claims speak of
KnownDates == Range(case_raw.Date)
KnownDays == {DayOf(s) : s \in KnownDates}
EarliestDay == CHOOSE d \in KnownDays : \A e \in KnownDays : d <= e
LatestDay == CHOOSE d \in KnownDays : \A e \in KnownDays : d >= e
\* ViewState.selected_date: the calendar day the slider stamp stands for
selected_date == IF timeslider.value.type = "float"
                 THEN callback_key(timeslider.value.v, tz)
                 ELSE strftime(timeslider.value.v)
SelectedDay == DayOf(selected_date)
Playing == button_label = PAUSE
Idle == button_label = PLAY
AnyTick == \E h \in periodic : Tick(h)
RowOf(c) == CHOOSE r \in 1..Len(merged) : merged[r].Canton = c
InMerged(c) == \E r \in 1..Len(merged) : merged[r].Canton = c

\* the three static sources as sets of canton codes
GeometryCodes == {str_slice3(shape_raw[i].HASC_1) : i \in 1..Len(shape_raw)}
DemographicsCodes == {demo_raw[i].Canton : i \in 1..Len(demo_raw)}
LocationCodes == {local_raw[i].abbreviation_canton : i \in 1..Len(local_raw)}

\* C3: once the sources are merged, a canton code has a row in merged if and
\* only if it occurs in the geometry, the demographics and the location source.
C3_JoinCorrect ==
    pc # "load" =>
      \A c \in Cantons \cup {CH} :
        InMerged(c) <=> (c \in GeometryCodes /\ c \in DemographicsCodes /\ c \in LocationCodes)
\* a merge that kept one canton and dropped the other
C3_Witness ==
    /\ pc = "task2"
    /\ Len(shape_raw) = 2
    /\ Len(merged) = 1
    /\ DemographicsCodes \cap LocationCodes = {merged[1].Canton}

\* the per-capita value the case series holds for canton c on calendar string d
SeriesValue(c, d) ==
    LET i == CHOOSE i \in 1..Len(case_raw.Date) : case_raw.Date[i] = d IN
    IF \E j \in 1..Len(case_raw.columns) : case_raw.columns[j] = ColName(c, "diff_pc")
    THEN LET j == CHOOSE j \in 1..Len(case_raw.columns) : case_raw.columns[j] = ColName(c, "diff_pc")
         IN case_raw.data[i][j]
    ELSE NaN

\* C4: after Task 1 every merged row of canton c holds, in the field named by
\* date d, the case series' value of that same canton c on d (NaN if the
\* series has none), whatever the row order of the shape file and whichever
\* cantons survive the join. (Rows without a canton code, which line 101 adds
\* to a frame the join left empty, are no record of any canton.)
C4_ValuesFollowCanton ==
    pc = "task2" =>
      \A r \in 1..Len(merged) : \A d \in KnownDates :
        ~IsNaN(merged[r].Canton) => merged[r].date[d] = SeriesValue(merged[r].Canton, d)

\* the day before d in the sorted known days (d not the earliest)
SortedPredecessor(d) == CHOOSE e \in KnownDays : e < d /\ \A f \in KnownDays : f < d => f <= e

\* C1: a Tick at the earliest known date selects the latest known date, and a
\* Tick at any other known date d selects the known date just before d in
\* sorted order, consecutive days or not.
C1_TickSortedPredecessor ==
    [][(AnyTick /\ SelectedDay \in KnownDays) =>
         SelectedDay' = IF SelectedDay = EarliestDay THEN LatestDay
                        ELSE SortedPredecessor(SelectedDay)]_vars
\* C2: pressing play from Idle and pressing it again with no Tick in between
\* leaves the label at play, the slider where it was, and removes the one
\* callback the first press registered, leaving none registered.
C2_PlayPauseRoundTrip ==
    [][PressPlay =>
         /\ timeslider' = timeslider
         /\ merged' = merged
         /\ geosource' = geosource
         /\ (Idle => Playing' /\ Cardinality(periodic') = Cardinality(periodic) + 1)
         /\ (lastOp = "Play" =>
               /\ Idle'
               /\ Cardinality(periodic) = 1
               /\ periodic' = {})]_vars
\* play then pause, back to back, away from the initial date
C2_Witness ==
    /\ lastOp = "Pause"
    /\ again
    /\ Idle
    /\ periodic = {}
    /\ SelectedDay # LatestDay

\* the cell of row r in the column of the selected date
SelectedCell(r) == merged[r].date[selected_date]

\* C5: after SetDate to a known date d, every row whose cell v in column d is
\* defined has size = v * 1e5 / 5 + 10 and dnc = v.
C5_SizeAffine ==
    (lastOp = "SetDate" /\ selected_date \in KnownDates) =>
      \A r \in 1..Len(merged) :
        ~IsNaN(SelectedCell(r)) =>
          /\ ~IsNaN(merged[r].size)
          /\ merged[r].size[1] * SCALE_DEN
               = SelectedCell(r)[1] * SCALE_NUM + OFFSET * SCALE_DEN * Den
          /\ merged[r].dnc = SelectedCell(r)
\* SetDate moved the view off the initial date onto defined values
C5_Witness ==
    /\ lastOp = "SetDate"
    /\ selected_date \in KnownDates
    /\ SelectedDay # LatestDay
    /\ Len(merged) = 2
    /\ \A r \in 1..Len(merged) : ~IsNaN(SelectedCell(r)) /\ merged[r].dnc = SelectedCell(r)

\* the scenario of the specification: AG holds 0.0001, NaN, 0.0005 on
\* 2020-10-29, 2020-10-30, 2020-10-31
Scenario ==
    /\ KnownDays = {1, 2, 3}
    /\ InMerged(AG)
    /\ merged[RowOf(AG)].date[YMD(1)] = Num(10)
    /\ IsNaN(merged[RowOf(AG)].date[YMD(2)])
    /\ merged[RowOf(AG)].date[YMD(3)] = Num(50)

\* C6: SetDate to a known date raises nothing; a row whose cell is NaN gets
\* size = NaN and dnc = NaN (neither 0 nor the offset 10) while the other rows
\* get their affine size; in the scenario AG has size 20.0 and dnc 0.0005 on
\* 2020-10-31 and NaN for both on 2020-10-30.
C6_MissingIsNoData ==
    (lastOp = "SetDate" /\ selected_date \in KnownDates) =>
      /\ err = ""
      /\ pc = "serve"
      /\ \A r \in 1..Len(merged) :
           IF IsNaN(SelectedCell(r))
           THEN IsNaN(merged[r].size) /\ IsNaN(merged[r].dnc)
           ELSE merged[r].size = Num(SelectedCell(r)[1] * 20000 + 1000000)
      /\ (Scenario /\ SelectedDay = 3) =>
           merged[RowOf(AG)].size = Num(2000000) /\ merged[RowOf(AG)].dnc = Num(50)
      /\ (Scenario /\ SelectedDay = 2) =>
           IsNaN(merged[RowOf(AG)].size) /\ IsNaN(merged[RowOf(AG)].dnc)
\* the scenario with the slider set to 2020-10-30
C6_Witness ==
    /\ lastOp = "SetDate"
    /\ Scenario
    /\ SelectedDay = 2
    /\ IsNaN(merged[RowOf(AG)].size)
    /\ \E r \in 1..Len(merged) : ~IsNaN(merged[r].size)

\* C7: SetDate to a known date d performed twice in a row publishes the same
\* document, sizes, dnc values and slider state as performing it once.
C7_SetDateIdempotent ==
    [][\A new \in SliderStamps :
         (SetDate(new) /\ lastOp = "SetDate" /\ timeslider.value = PyFloat(new)
            /\ callback_key(new, tz) \in KnownDates) =>
           /\ geosource' = geosource
           /\ merged' = merged
           /\ timeslider' = timeslider
           /\ <<buttons', color_bar', fill_color'>> = <<buttons, color_bar, fill_color>>]_vars
\* the same known date was set twice in a row, away from the initial date
C7_Witness ==
    /\ lastOp = "SetDate"
    /\ again
    /\ selected_date \in KnownDates
    /\ SelectedDay # LatestDay
    /\ geosource = to_json(merged)

\* C8: SetMetric(m), Idle or Playing, makes field m drive the fill colour and
\* the colour bar's mapper and title, and leaves the slider, every size and
\* dnc, the published document, the button and the timer as they were.
C8_SetMetricFrame ==
    [][\A new \in 0..(Len(labels) - 1) :
         SetMetric(new) =>
           /\ fill_color'.field = labels[new + 1]
           /\ color_bar'.title = labels[new + 1]
           /\ color_bar'.color_mapper = fill_color'.transform
           /\ UNCHANGED <<timeslider, merged, geosource, dates>>
           /\ UNCHANGED <<button_label, callback_id, periodic>>]_vars
\* beds per capita selected while the animation plays away from the initial date
C8_Witness ==
    /\ lastOp = "SetMetric"
    /\ Playing
    /\ color_bar.title = "BedsPerCapita"
    /\ fill_color.field = "BedsPerCapita"
    /\ SelectedDay # LatestDay

\* C9: while serving, exactly one periodic callback is registered when the
\* button shows pause and none when it shows play; a Tick can fire exactly
\* while Playing, so none fires between a pause and the next play.
C9_TimerOwnership ==
    pc = "serve" =>
      /\ Playing => periodic = {callback_id} /\ callback_id # 0
      /\ Idle => periodic = {}
      /\ Playing \/ Idle
      /\ (ENABLED AnyTick) <=> Playing
      /\ lastOp = "Tick" => Playing
\* ticking in the second play session
C9_Witness ==
    /\ lastOp = "Tick"
    /\ Playing
    /\ callback_id = 2
    /\ periodic = {2}

\* a Tick that gets to compute next = current date - 1 day, and that day
ComputesNext == AnyTick /\ ~animate_raises(timeslider.value)
TickTarget == SelectedDay - 1

\* C10: when the day before the current date is not a known date, a Tick
\* selects the earliest known date and applies SetDate to it.
C10_WrapToEarliest ==
    [][(ComputesNext /\ SelectedDay \in KnownDays /\ TickTarget \notin KnownDays) =>
         /\ SelectedDay' = EarliestDay
         /\ \A r \in 1..Len(merged) :
              merged'[r].dnc = merged[r].date[YMD(EarliestDay)]]_vars
\* C10 (amended): when the day before the current date is not a known date, a
\* Tick selects the latest known date, the last one of the series, and
\* applies SetDate to it: sizes, dnc and the document follow that column.
C10_WrapToLatest ==
    [][(ComputesNext /\ SelectedDay \in KnownDays /\ TickTarget \notin KnownDays) =>
         /\ SelectedDay' = LatestDay
         /\ err' = ""
         /\ \A r \in 1..Len(merged) :
              /\ merged'[r].dnc = merged[r].date[YMD(LatestDay)]
              /\ merged'[r].size = affine(merged[r].date[YMD(LatestDay)])
         /\ geosource' = to_json(merged')]_vars
\* a Tick wrapped from the earliest of several dates to the latest
C10_Witness ==
    /\ lastOp = "Tick"
    /\ again
    /\ err = ""
    /\ timeslider.value.type = "float"
    /\ KnownDays = {1, 2}
    /\ SelectedDay = 2
    /\ geosource = to_json(merged)

\* C11: while serving, from the initial state on and after any sequence of
\* SetDate to a known date, SetMetric, PressPlay and Tick, selected_date is a
\* known date with a column in every row, every row's dnc is its cell in that
\* column and its size is the affine image of that cell (NaN for a NaN cell);
\* the initial state is Idle at the latest known date.
C11_ViewConsistent ==
    pc = "serve" =>
      /\ selected_date \in KnownDates
      /\ \A r \in 1..Len(merged) :
           /\ selected_date \in DOMAIN merged[r].date
           /\ merged[r].dnc = SelectedCell(r)
           /\ merged[r].size = IF IsNaN(SelectedCell(r)) THEN NaN
                               ELSE Num(SelectedCell(r)[1] * 20000 + 1000000)
      /\ lastOp = "Task2" => Idle /\ SelectedDay = LatestDay
\* the animation reached the earliest of three dates, one row without data
C11_Witness ==
    /\ pc = "serve"
    /\ lastOp = "Tick"
    /\ Playing
    /\ KnownDays = {1, 2, 3}
    /\ SelectedDay = 1
    /\ buttons = 1
    /\ \E r \in 1..Len(merged) : IsNaN(merged[r].size)
    /\ \E r \in 1..Len(merged) : ~IsNaN(merged[r].size)

\* the animation is left to itself: Playing, no press and no slider move
LeftPlaying == Playing /\ lastOp \in {"Tick", "SetMetric"}

\* C12: whatever the known dates and the date the animation starts from, if
\* from some point on the driver stays Playing with Ticks delivered and neither
\* PressPlay nor SetDate happens, every known date is selected again and again.
C12_AnimationCoversDates ==
    \A d \in 1..MaxDay :
      (<>[]LeftPlaying) => []<>(d \in KnownDays => SelectedDay = d)
====
